---- MODULE Spec2Model ----
(***************************************************************************)
(* Data-quality evaluation and monitoring engine of the Energy Data        *)
(* Pipeline: QualityMonitor (services/quality_monitor.py), the pass of     *)
(* DataQualityService.run_comprehensive_quality_check                      *)
(* (services/data_quality_service.py) and the rows it writes through the   *)
(* session (database/connection.py, repositories/quality_repository.py).   *)
(*                                                                         *)
(* Scores are percentages with two decimals and are held as integers in    *)
(* hundredths of a percent (90.0 % is 9000).  Times are whole hours.       *)
(* Coroutines run on one asyncio event loop: a step of the model is the    *)
(* code between two suspension points (an awaited query, commit or sleep). *)
(***************************************************************************)
EXTENDS Integers, Sequences, FiniteSets, TLC

\* ---------------------------------------------------------------- bounds
MaxTasks == 2        \* loop tasks start_monitoring may create in one run
MaxPasses == 2       \* passes started in one run (each gets a pass number)
MaxFaults == 1       \* awaited operations that raise in one run
MaxRows == 3         \* rows of a generated energy_consumption population
MaxBatch == 2        \* records of one create_energy_records batch

\* ------------------------------------------------------ program constants
check_interval_minutes == 60
alert_threshold == 7000
BACKOFF_SECONDS == 300
ENERGY_WINDOW_HOURS == 720
WEATHER_WINDOW_HOURS == 168
MAX_CONSUMPTION == 1000000
FRESHNESS_DECAY == 2
OUTLIER_CONSUMPTION == 100000
ISSUE_LIMIT == 10
EXCELLENT_SCORE == 9500
GOOD_SCORE == 8500
WARNING_SCORE == 7000
POOR_SCORE == 0
METRICS_LIMIT == 50
COMPLETENESS_ALERT == 8000
ACCURACY_ALERT == 8500
NOW == 1000          \* datetime.now() of the run, in hours

NULL == <<>>         \* SQL NULL; a present value v is <<v>>
IsNull(x) == x = NULL
Val(x) == x[1]

\* ------------------------------------------------------------ arithmetic
Abs(x) == IF x < 0 THEN 0 - x ELSE x
Max(a, b) == IF a >= b THEN a ELSE b
Min(a, b) == IF a <= b THEN a ELSE b

\* round(num / den) to the nearest integer, ties to even (Python round()).
RoundDiv(num, den) ==
  LET q == num \div den
      r == num % den
  IN  IF 2 * r < den THEN q
      ELSE IF 2 * r > den THEN q + 1
      ELSE IF q % 2 = 0 THEN q ELSE q + 1

\* round((part / total) * 100, 2), in hundredths of a percent.
Percent(part, total) == RoundDiv(part * 10000, total)

RECURSIVE SumSeq(_)
SumSeq(s) == IF s = <<>> THEN 0 ELSE Head(s) + SumSeq(Tail(s))

\* --------------------------------------------------- monitored populations
\* energy_consumption rows: region, timestamp, consumption_mwh (nullable),
\* energy_type, created_at.  weather_data rows: region, timestamp,
\* temperature, humidity, pressure (nullable).
ERow(region, ts, c, created) ==
  [region |-> <<region>>, timestamp |-> ts, consumption_mwh |-> c,
   energy_type |-> <<"electricity">>, created_at |-> created]
WRow(region, ts, t, h, p) ==
  [region |-> <<region>>, timestamp |-> ts, temperature |-> t, humidity |-> h,
   pressure |-> p]

\* The populations a run starts from: (energy_consumption, weather_data).
Populations ==
  { << << ERow("CAL", 990, <<500>>, 990), ERow("TEX", 990, <<700>>, 980),
          ERow("NY", 985, <<900>>, 985) >>,
       << WRow("CAL", 990, <<70>>, <<40>>, <<1013>>),
          WRow("TEX", 990, <<65>>, <<55>>, <<1010>>) >> >>,
    << << ERow("CAL", 995, <<500>>, 996), ERow("TEX", 995, NULL, 996),
          ERow("NY", 995, <<300>>, 996), ERow("FLA", 995, <<200>>, 996),
          ERow("WA", 995, <<100>>, 996), ERow("OR", 995, <<900>>, 996) >>,
       << WRow("CAL", 990, <<70>>, <<40>>, <<1013>>) >> >> }

\* Populations for the Metric Calculator on its own.  Row kinds of
\* energy_consumption: in range, NULL consumption, negative, the upper bound
\* itself, above it, older than the window, dated and created after NOW, and
\* a second row of the first kind's (region, timestamp, energy_type).
EnergyKinds ==
  << ERow("CAL", 990, <<500>>, 990), ERow("TEX", 990, NULL, 985),
     ERow("NY", 990, <<0 - 1>>, 980), ERow("FLA", 995, <<1000000>>, 999),
     ERow("WA", 995, <<1000001>>, 960), ERow("OR", 200, <<500>>, 200),
     ERow("CAL", 1005, <<500>>, 1010), ERow("CAL", 990, <<700>>, 990) >>

\* Tables are bags of rows: one sequence stands for each bag of at most
\* MaxRows rows of these kinds (a kind taken twice is a duplicate group).
NonDecreasing(n, k) ==
  {f \in [1..n -> 1..k] : \A i \in 1..(n - 1) : f[i] <= f[i + 1]}
EnergyPopulations ==
  UNION {{[i \in 1..n |-> EnergyKinds[f[i]]] : f \in NonDecreasing(n, Len(EnergyKinds))} :
         n \in 0..MaxRows}

\* 10 records in the window, 3 of them sharing (region, timestamp, type).
EnergyTenWithTriple ==
  [i \in 1..10 |-> ERow("CAL", IF i <= 3 THEN 990 ELSE 990 - i, <<500>>, 990)]
\* 100 records in the window without duplicates: 10 with NULL consumption,
\* 5 above the upper bound, 85 in range.
EnergyHundred ==
  [i \in 1..100 |->
     ERow("CAL", 890 + i,
          IF i <= 10 THEN NULL ELSE IF i <= 15 THEN <<1000001>> ELSE <<500>>, 990)]

\* weather_data: empty; one good row; a NULL temperature, a temperature and
\* a humidity out of range and a pressure of 0; only a row older than the
\* window; five rows, one with a NULL temperature.
WeatherPopulations ==
  { <<>>,
    << WRow("CAL", 990, <<70>>, <<40>>, <<1013>>) >>,
    << WRow("CAL", 990, <<70>>, <<40>>, <<1013>>), WRow("TEX", 990, NULL, <<40>>, <<1013>>),
       WRow("NY", 990, <<160>>, <<40>>, <<1013>>), WRow("FLA", 990, <<70>>, <<101>>, <<0>>) >>,
    << WRow("CAL", 800, <<70>>, <<40>>, <<1013>>) >>,
    << WRow("CAL", 990, <<70>>, <<40>>, <<1013>>), WRow("TEX", 990, <<71>>, <<40>>, <<1013>>),
       WRow("NY", 990, <<72>>, <<40>>, <<1013>>), WRow("FLA", 990, <<73>>, <<40>>, <<1013>>),
       WRow("WA", 990, NULL, <<40>>, <<1013>>) >> }

\* ------------------------------------------------------- Metric Calculator
\* DataQualityService._check_energy_data_quality: four count queries over the
\* 30-day window.  The empty window returns zero scores and no
\* complete_records key, which _store_quality_metrics reads as 0.
EnergyInWindow(r) == r.timestamp >= NOW - ENERGY_WINDOW_HOURS
EnergyComplete(r) ==
  /\ EnergyInWindow(r)
  /\ ~IsNull(r.consumption_mwh)
  /\ ~IsNull(r.region)
  /\ ~IsNull(r.energy_type)
EnergyAccurateExclusive(r) ==
  /\ EnergyInWindow(r)
  /\ ~IsNull(r.consumption_mwh)
  /\ Val(r.consumption_mwh) >= 0
  /\ Val(r.consumption_mwh) < MAX_CONSUMPTION
  /\ r.timestamp <= NOW
EnergyAccurate(r) ==
  /\ EnergyInWindow(r)
  /\ ~IsNull(r.consumption_mwh)
  /\ Val(r.consumption_mwh) >= 0
  /\ Val(r.consumption_mwh) <= MAX_CONSUMPTION
  /\ r.timestamp <= NOW
EnergyKey(r) == <<r.region, r.timestamp, r.energy_type>>
\* The duplicate query (lines 116-127): the groups of in-window rows by
\* (region, timestamp, energy_type) having more than one row, with their
\* dup_count; duplicate_count is the sum of dup_count - 1 over them (line 131).
DupCount(tbl, k) ==
  Cardinality({i \in DOMAIN tbl : EnergyInWindow(tbl[i]) /\ EnergyKey(tbl[i]) = k})
DuplicateGroups(tbl) ==
  {k \in {EnergyKey(tbl[i]) : i \in {j \in DOMAIN tbl : EnergyInWindow(tbl[j])}} :
     DupCount(tbl, k) > 1}
RECURSIVE SumExtras(_, _, _)
SumExtras(tbl, groups, first) ==
  IF groups = {} THEN 0
  ELSE LET k == CHOOSE g \in groups : TRUE
       IN  (DupCount(tbl, k) - first) + SumExtras(tbl, groups \ {k}, first)
DuplicateCountWholeGroups(tbl) == SumExtras(tbl, DuplicateGroups(tbl), 0)
DuplicateCount(tbl) == SumExtras(tbl, DuplicateGroups(tbl), 1)

\* DataQualityService._find_energy_data_issues: one issue per row found by
\* each of its three queries, at most ISSUE_LIMIT rows a query; an issue is
\* held as its type.
Repeat(x, n) == [i \in 1..n |-> x]
IssuesOfType(type, rows) == Repeat(type, Min(Cardinality(rows), ISSUE_LIMIT))
_find_energy_data_issues(tbl) ==
  LET win == {i \in DOMAIN tbl : EnergyInWindow(tbl[i])}
      val == {i \in win : ~IsNull(tbl[i].consumption_mwh)}
  IN  IssuesOfType("null_consumption", win \ val)
      \o IssuesOfType("negative_consumption",
                      {i \in val : Val(tbl[i].consumption_mwh) < 0})
      \o IssuesOfType("potential_outlier",
                      {i \in val : Val(tbl[i].consumption_mwh) > OUTLIER_CONSUMPTION})

\* The result of the empty window has no accurate_records and no
\* duplicate_count key.
TotalRecords(tbl) == Cardinality({i \in DOMAIN tbl : EnergyInWindow(tbl[i])})
CompleteRecords(tbl) == Cardinality({i \in DOMAIN tbl : EnergyComplete(tbl[i])})
AccurateRecords(tbl) == Cardinality({i \in DOMAIN tbl : EnergyAccurate(tbl[i])})
\* Lines 80-87 and 100-146: the result made of the four counts and the issues.
EnergyResult(total, complete, accurate, dups, issues) ==
  IF total = 0
  THEN [completeness_score |-> 0, accuracy_score |-> 0,
        consistency_score |-> 0, total_records |-> 0,
        complete_records |-> 0, issues |-> <<>>]
  ELSE [completeness_score |-> Percent(complete, total),
        accuracy_score |-> Percent(accurate, total),
        consistency_score |-> Percent(total - dups, total),
        total_records |-> total, complete_records |-> complete,
        accurate_records |-> accurate, duplicate_count |-> dups,
        issues |-> issues]
\* The check over a table that does not change between its queries.
_check_energy_data_quality(tbl) ==
  EnergyResult(TotalRecords(tbl), CompleteRecords(tbl), AccurateRecords(tbl),
               DuplicateCount(tbl), _find_energy_data_issues(tbl))

\* DataQualityService._check_weather_data_quality: 7-day window.
WeatherInWindow(r) == r.timestamp >= NOW - WEATHER_WINDOW_HOURS
WeatherComplete(r) ==
  /\ WeatherInWindow(r)
  /\ ~IsNull(r.temperature)
  /\ ~IsNull(r.region)
Between(x, lo, hi) == ~IsNull(x) /\ Val(x) >= lo /\ Val(x) <= hi
WeatherAccurate(r) ==
  /\ WeatherInWindow(r)
  /\ Between(r.temperature, 0 - 50, 150)
  /\ Between(r.humidity, 0, 100)
  /\ ~IsNull(r.pressure)
  /\ Val(r.pressure) > 0

_check_weather_data_quality_vacuous(tbl) ==
  LET total == Cardinality({i \in DOMAIN tbl : WeatherInWindow(tbl[i])})
      complete == Cardinality({i \in DOMAIN tbl : WeatherComplete(tbl[i])})
      accurate == Cardinality({i \in DOMAIN tbl : WeatherAccurate(tbl[i])})
  IN  IF total = 0
      THEN [completeness_score |-> 10000, accuracy_score |-> 10000,
            total_records |-> 0, complete_records |-> 0, issues |-> <<>>]
      ELSE [completeness_score |-> Percent(complete, total),
            accuracy_score |-> Percent(accurate, total),
            total_records |-> total, complete_records |-> complete,
            accurate_records |-> accurate, issues |-> <<>>]
_check_weather_data_quality(tbl) ==
  LET total == Cardinality({i \in DOMAIN tbl : WeatherInWindow(tbl[i])})
      complete == Cardinality({i \in DOMAIN tbl : WeatherComplete(tbl[i])})
      accurate == Cardinality({i \in DOMAIN tbl : WeatherAccurate(tbl[i])})
  IN  IF total = 0
      THEN [completeness_score |-> 0, accuracy_score |-> 0,
            total_records |-> 0, complete_records |-> 0, issues |-> <<>>]
      ELSE [completeness_score |-> Percent(complete, total),
            accuracy_score |-> Percent(accurate, total),
            total_records |-> total, complete_records |-> complete,
            accurate_records |-> accurate, issues |-> <<>>]

\* DataQualityService._check_system_health.  reachable = FALSE is a query of
\* the check raising: the handler returns the all-zero result instead.
LastRecordTime(tbl) ==
  IF tbl = <<>> THEN NULL
  ELSE <<CHOOSE m \in {tbl[i].created_at : i \in DOMAIN tbl} :
           \A i \in DOMAIN tbl : tbl[i].created_at <= m>>
FreshnessScore(tbl) ==
  LET last == LastRecordTime(tbl)
  IN  IF IsNull(last) THEN 0
      ELSE Max(0, 10000 - (NOW - Val(last)) * FRESHNESS_DECAY * 100)
_check_system_health(tbl, reachable) ==
  IF reachable
  THEN [health_score |-> RoundDiv(10000 + FreshnessScore(tbl), 2),
        database_health |-> 10000, data_freshness |-> FreshnessScore(tbl)]
  ELSE [health_score |-> 0, database_health |-> 0, data_freshness |-> 0]

\* DataQualityService._calculate_overall_score: round(sum / len, 2).
_calculate_overall_score(scores) ==
  IF scores = <<>> THEN 0 ELSE RoundDiv(SumSeq(scores), Len(scores))

\* The list run_comprehensive_quality_check hands to _calculate_overall_score.
OverallInputsCompletenessOnly(energy, weather, system) ==
  << energy.completeness_score, weather.completeness_score >>
OverallInputs(energy, weather, system) ==
  << energy.completeness_score, weather.completeness_score,
     system.health_score >>

\* ------------------------------------------------------------------ state
Tasks == 1..MaxTasks          \* loop tasks, in the order start_monitoring makes them
Imm == MaxTasks + 1           \* the coroutine running run_immediate_check
Adm == MaxTasks + 2           \* the background task of POST /quality/run-check
Procs == 1..(MaxTasks + 2)
Callers == {"shutdown", "api"}   \* callers of stop_monitoring

VARIABLES
  is_running,                 \* QualityMonitor.is_running
  monitor_task,               \* QualityMonitor.monitor_task (0 is None)
  pc,                         \* where each coroutine is suspended
  cancel_requested,           \* Task.cancel() was called on the loop task
  sleep_seconds,              \* the asyncio.sleep a loop task is in (0: none)
  caller,                     \* stop_monitoring calls: position, task awaited
  pass_no,                    \* the number of the pass a coroutine runs
  results,                    \* overall_metrics of that pass, as far as computed
  raised_in,                  \* the sub-checks of that pass whose query raised
  outcome,                    \* how run_comprehensive_quality_check ended
  session_new,                \* objects added to the coroutine's session, uncommitted
  alerts_todo,                \* alerts _check_quality_alerts has still to emit
  data_quality_metrics,       \* committed DataQualityMetrics rows
  data_quality_issues,        \* committed DataQualityIssues rows
  stored_log,                 \* passes that logged "Quality metrics stored successfully"
  energy_consumption,         \* the monitored tables
  weather_data,
  immediate_return,           \* what the last run_immediate_check call returned
  resolve_return,             \* response of the last issue-resolve request
  ingest_return,              \* what the last create_energy_records call returned
  energy_check,               \* an energy check taken query by query: position, counts
  clock,                      \* readings of datetime.now() so far distinguish this many instants
  quality_scores,             \* quality_scores of the last dashboard view returned
  passes,                     \* passes started
  faults                      \* operations that raised

vars ==
  << is_running, monitor_task, pc, cancel_requested, sleep_seconds, caller,
     pass_no, results, raised_in, outcome, session_new, alerts_todo,
     data_quality_metrics, data_quality_issues, stored_log,
     energy_consumption, weather_data, immediate_return, resolve_return, ingest_return,
     energy_check, clock, quality_scores, passes, faults >>

monitor_vars == << is_running, monitor_task, cancel_requested, caller >>
table_vars == << energy_consumption, weather_data >>
store_vars == << data_quality_metrics, data_quality_issues, stored_log >>
pass_vars == << pass_no, results, raised_in, outcome, session_new, alerts_todo >>
\* What the scheduler and the passes leave alone.
ext_vars == << resolve_return, ingest_return, energy_check, clock, quality_scores >>

ZeroEnergy == _check_energy_data_quality(<<>>)
ZeroWeather == _check_weather_data_quality(<<>>)
ZeroSystem == _check_system_health(<<>>, FALSE)
NoResults ==
  [energy_data |-> ZeroEnergy, weather_data |-> ZeroWeather,
   system_health |-> ZeroSystem, overall_score |-> 0]

\* run_immediate_check's return values (lines 183-188 and 192-196); NoReturn
\* while no call has returned.
NoReturn == [status |-> "none"]
ImmediateCompleted(m) ==
  [status |-> "completed", overall_score |-> m.overall_score, timestamp |-> NOW,
   results |-> m]
ImmediateFailedRaises(error) == [status |-> "raised", error |-> error]
ImmediateFailed(error) == [status |-> "failed", error |-> error, timestamp |-> NOW]

\* No energy check taken query by query is under way.
NoCheck == [pc |-> "idle"]

InPass == {"store", "alerts", "log"}
Finished(t) == pc[t] \in {"none", "done"}
\* A loop task that was created, has not ended and was not cancelled.
Active(t) == ~Finished(t) /\ ~cancel_requested[t]

InitRun ==
  /\ is_running = FALSE
  /\ monitor_task = 0
  /\ pc = [p \in Procs |-> IF p \in Tasks THEN "none" ELSE "idle"]
  /\ cancel_requested = [t \in Tasks |-> FALSE]
  /\ sleep_seconds = [t \in Tasks |-> 0]
  /\ caller = [c \in Callers |-> [pc |-> "idle", task |-> 0]]
  /\ pass_no = [p \in Procs |-> 0]
  /\ results = [p \in Procs |-> NoResults]
  /\ raised_in = [p \in Procs |-> {}]
  /\ outcome = [p \in Procs |-> "none"]
  /\ session_new = [p \in Procs |-> <<>>]
  /\ alerts_todo = [p \in Procs |-> <<>>]
  /\ data_quality_issues = {}
  /\ stored_log = {}
  /\ immediate_return = NoReturn
  /\ resolve_return = NoReturn
  /\ ingest_return = NoReturn
  /\ energy_check = NoCheck
  /\ clock = 1
  /\ quality_scores = {}
  /\ passes = 0
  /\ faults = 0

\* A run that starts on an empty metric history.
InitEngine ==
  /\ InitRun
  /\ data_quality_metrics = {}

Init ==
  /\ InitEngine
  /\ \E pop \in Populations :
       /\ energy_consumption = pop[1]
       /\ weather_data = pop[2]

\* The engine over the calculator's populations: every generated energy
\* population beside one good weather row, and every weather population
\* beside the empty and the two larger energy populations.
CalcPopulations ==
  {<<e, << WRow("CAL", 990, <<70>>, <<40>>, <<1013>>) >> >> : e \in EnergyPopulations}
  \cup ({<<>>, EnergyTenWithTriple, EnergyHundred} \X WeatherPopulations)
CalcInit ==
  /\ InitEngine
  /\ \E pop \in CalcPopulations :
       /\ energy_consumption = pop[1]
       /\ weather_data = pop[2]

\* ------------------------------------------------------------ persistence
\* A DataQualityMetrics row.  pass stands for the row's identity (its id);
\* calculated_at is the reading of datetime.now() the writer stamps it with:
\* the rows of one pass are written with one timestamp.
MetricRowCumulative(n, at, table, metric, value, total, valid, invalid) ==
  [pass |-> n, calculated_at |-> at, table_name |-> table, metric_name |-> metric,
   metric_value |-> value, total_records |-> total * n, valid_records |-> valid * n,
   invalid_records |-> invalid * n]
MetricRow(n, at, table, metric, value, total, valid, invalid) ==
  [pass |-> n, calculated_at |-> at, table_name |-> table, metric_name |-> metric,
   metric_value |-> value, total_records |-> total, valid_records |-> valid,
   invalid_records |-> invalid]

\* The objects _store_quality_metrics adds to the session, in db.add order.
PassMetricRows(n, at, m) ==
  LET e == m.energy_data
      w == m.weather_data
  IN  << MetricRow(n, at, "energy_consumption", "completeness", e.completeness_score,
                   e.total_records, e.complete_records,
                   e.total_records - e.complete_records),
         MetricRow(n, at, "energy_consumption", "accuracy", e.accuracy_score,
                   e.total_records, e.complete_records,
                   e.total_records - e.complete_records),
         MetricRow(n, at, "energy_consumption", "consistency", e.consistency_score,
                   e.total_records, e.complete_records,
                   e.total_records - e.complete_records),
         MetricRow(n, at, "weather_data", "completeness", w.completeness_score,
                   w.total_records, w.complete_records,
                   w.total_records - w.complete_records),
         MetricRow(n, at, "weather_data", "accuracy", w.accuracy_score,
                   w.total_records, w.complete_records,
                   w.total_records - w.complete_records) >>

\* The row _log_monitoring_check stores: results has no total_records,
\* valid_records or invalid_records key, so each is read as 0.
OverallRowCounted(n, at, m) ==
  MetricRow(n, at, "system_overall", "overall_quality_score", m.overall_score,
            m.energy_data.total_records + m.weather_data.total_records, 0, 0)
OverallRow(n, at, m) ==
  MetricRow(n, at, "system_overall", "overall_quality_score", m.overall_score, 0, 0, 0)

\* await db.commit() on a session holding the pending objects `pending`.
\* failAt = 0: every INSERT and the COMMIT succeed.  failAt = k > 0: the k-th
\* INSERT (or the COMMIT after it) raises; the transaction is rolled back.
RowsCommittedPerRow(pending, failAt) ==
  IF failAt = 0 THEN {pending[i] : i \in DOMAIN pending}
  ELSE {pending[i] : i \in 1..(failAt - 1)}
RowsCommitted(pending, failAt) ==
  IF failAt = 0 THEN {pending[i] : i \in DOMAIN pending} ELSE {}

\* INSERT of committed rows into a table: existing rows are left alone.
DbUpsert(table, rows) ==
  {r \in table : \A n \in rows :
     ~(n.table_name = r.table_name /\ n.metric_name = r.metric_name)} \cup rows
DbInsert(table, rows) == table \cup rows

\* --------------------------------------------------------------- dashboard
\* DataQualityService.quality_thresholds (lines 25-30) and
\* _get_status_from_score (lines 370-379).
quality_thresholds ==
  [excellent |-> EXCELLENT_SCORE, good |-> GOOD_SCORE, warning |-> WARNING_SCORE,
   poor |-> POOR_SCORE]
_get_status_from_score_exclusive(score) ==
  IF score > quality_thresholds.excellent THEN "excellent"
  ELSE IF score > quality_thresholds.good THEN "good"
  ELSE IF score > quality_thresholds.warning THEN "warning"
  ELSE "poor"
_get_status_from_score(score) ==
  IF score >= quality_thresholds.excellent THEN "excellent"
  ELSE IF score >= quality_thresholds.good THEN "good"
  ELSE IF score >= quality_thresholds.warning THEN "warning"
  ELSE "poor"

\* The latest-metric query of _get_latest_quality_metrics (lines 414-430):
\* the rows joined to their (table_name, metric_name) group's
\* max(calculated_at).
LatestTime(rows, table, metric) ==
  CHOOSE m \in {r.calculated_at : r \in {x \in rows : x.table_name = table
                                                     /\ x.metric_name = metric}} :
    \A r \in rows : (r.table_name = table /\ r.metric_name = metric) => r.calculated_at <= m
_get_latest_quality_metrics(rows) ==
  {r \in rows : r.calculated_at = LatestTime(rows, r.table_name, r.metric_name)}

\* QualityRepository.get_latest_quality_metrics (lines 93-117): the same join
\* over the rows of table_name (NULL: every table), newest first, cut at limit.
get_latest_quality_metrics(rows, table_name, limit) ==
  LET scope == {r \in rows : IsNull(table_name) \/ r.table_name = Val(table_name)}
      latest == _get_latest_quality_metrics(scope)
  IN  {r \in latest :
         Cardinality({x \in latest : x.calculated_at > r.calculated_at}) < limit}

\* _convert_metrics_to_scores (lines 439-448): one score entry per row.
_convert_metrics_to_scores(metrics) ==
  {[table_name |-> r.table_name, metric_name |-> r.metric_name,
    score |-> r.metric_value, status |-> _get_status_from_score(r.metric_value),
    last_calculated |-> r.calculated_at] : r \in metrics}

\* ------------------------------------------------------------------ alerts
\* QualityMonitor._check_quality_alerts: the alerts it emits, in order.
Alert(severity, table, dimension) ==
  [severity |-> severity, table |-> table, dimension |-> dimension]
TableAlertsInclusive(table, data) ==
  (IF data.completeness_score <= COMPLETENESS_ALERT
   THEN << Alert("MEDIUM", table, "completeness") >> ELSE <<>>)
  \o (IF data.accuracy_score <= ACCURACY_ALERT
      THEN << Alert("MEDIUM", table, "accuracy") >> ELSE <<>>)
TableAlerts(table, data) ==
  (IF data.completeness_score < COMPLETENESS_ALERT
   THEN << Alert("MEDIUM", table, "completeness") >> ELSE <<>>)
  \o (IF data.accuracy_score < ACCURACY_ALERT
      THEN << Alert("MEDIUM", table, "accuracy") >> ELSE <<>>)
AlertsFor(m) ==
  (IF m.overall_score < alert_threshold
   THEN << Alert("HIGH", "system", "overall") >> ELSE <<>>)
  \o TableAlerts("energy_consumption", m.energy_data)
  \o TableAlerts("weather_data", m.weather_data)

\* QualityRepository.store_quality_issue as _create_quality_alert calls it:
\* the row is made OPEN, with no resolved_at and no resolution_notes.
IssueRowStamped(id, n, a) ==
  [id |-> id, pass |-> n, table_name |-> "system_monitoring",
   issue_type |-> "quality_degradation", severity |-> a.severity,
   about |-> <<a.table, a.dimension>>, status |-> "OPEN",
   resolved_at |-> <<0>>, resolution_notes |-> NULL]
IssueRow(id, n, a) ==
  [id |-> id, pass |-> n, table_name |-> "system_monitoring",
   issue_type |-> "quality_degradation", severity |-> a.severity,
   about |-> <<a.table, a.dimension>>, status |-> "OPEN",
   resolved_at |-> NULL, resolution_notes |-> NULL]

\* QualityRepository.resolve_quality_issue, lines 449-451: the fields it sets
\* on the row it has selected.
ResolvedIssueToggled(issue, notes, at) ==
  [issue EXCEPT !.status = IF @ = "OPEN" THEN "RESOLVED" ELSE "OPEN",
                !.resolved_at = <<at>>, !.resolution_notes = <<notes>>]
ResolvedIssue(issue, notes, at) ==
  [issue EXCEPT !.status = "RESOLVED", !.resolved_at = <<at>>,
                !.resolution_notes = <<notes>>]

\* ----------------------------------------------------------- QualityMonitor
\* start_monitoring, line 27: the guard that makes a second start a no-op.
AlreadyRunningNever == FALSE
AlreadyRunning == is_running

\* get_monitoring_status (lines 163-168): a read of the monitor's fields.
get_monitoring_status_stale ==
  [is_running |-> monitor_task # 0,
   check_interval_minutes |-> check_interval_minutes,
   alert_threshold |-> alert_threshold,
   last_check |-> IF is_running THEN <<NOW>> ELSE NULL]
get_monitoring_status ==
  [is_running |-> is_running,
   check_interval_minutes |-> check_interval_minutes,
   alert_threshold |-> alert_threshold,
   last_check |-> IF is_running THEN <<NOW>> ELSE NULL]

\* The id the database gives the next DataQualityIssues row.
NextIssueId == Cardinality(data_quality_issues) + 1

NextTask == Cardinality({t \in Tasks : pc[t] # "none"}) + 1

\* start_monitoring has no await: it runs in one step.
start_monitoring ==
  IF AlreadyRunning
  THEN UNCHANGED vars
  ELSE /\ NextTask \in Tasks
       /\ is_running' = TRUE
       /\ monitor_task' = NextTask
       /\ pc' = [pc EXCEPT ![NextTask] = "new"]
       /\ UNCHANGED << cancel_requested, sleep_seconds, caller, pass_vars,
                       store_vars, table_vars, ext_vars, immediate_return, passes, faults >>

\* stop_monitoring up to its await: the early return, or is_running = False,
\* monitor_task.cancel() and the suspension in `await self.monitor_task`.
stop_monitoring_no_cancel(c) ==
  /\ caller[c].pc = "idle"
  /\ IF ~is_running
     THEN /\ caller' = [caller EXCEPT ![c] = [pc |-> "returned", task |-> 0]]
          /\ UNCHANGED << is_running, cancel_requested >>
     ELSE /\ is_running' = FALSE
          /\ caller' = [caller EXCEPT ![c] =
                          IF monitor_task # 0 THEN [pc |-> "awaiting", task |-> monitor_task]
                          ELSE [pc |-> "returned", task |-> 0]]
          /\ UNCHANGED cancel_requested
  /\ UNCHANGED << monitor_task, pc, sleep_seconds, pass_vars, store_vars,
                  table_vars, ext_vars, immediate_return, passes, faults >>
stop_monitoring(c) ==
  /\ caller[c].pc = "idle"
  /\ IF ~is_running
     THEN /\ caller' = [caller EXCEPT ![c] = [pc |-> "returned", task |-> 0]]
          /\ UNCHANGED << is_running, cancel_requested >>
     ELSE /\ is_running' = FALSE
          /\ IF monitor_task # 0
             THEN /\ cancel_requested' =
                       [cancel_requested EXCEPT ![monitor_task] = @ \/ ~Finished(monitor_task)]
                  /\ caller' = [caller EXCEPT ![c] = [pc |-> "awaiting", task |-> monitor_task]]
             ELSE /\ caller' = [caller EXCEPT ![c] = [pc |-> "returned", task |-> 0]]
                  /\ UNCHANGED cancel_requested
  /\ UNCHANGED << monitor_task, pc, sleep_seconds, pass_vars, store_vars,
                  table_vars, ext_vars, immediate_return, passes, faults >>

\* `await self.monitor_task` ends once the awaited task has ended.
StopAwaitDone(c) ==
  /\ caller[c].pc = "awaiting"
  /\ Finished(caller[c].task)
  /\ caller' = [caller EXCEPT ![c] = [pc |-> "returned", task |-> 0]]
  /\ UNCHANGED << is_running, monitor_task, pc, cancel_requested, sleep_seconds,
                  pass_vars, store_vars, table_vars, ext_vars, immediate_return, passes, faults >>

\* The caller takes the return of stop_monitoring and may call again.
StopReturned(c) ==
  /\ caller[c].pc = "returned"
  /\ caller' = [caller EXCEPT ![c].pc = "idle"]
  /\ UNCHANGED << is_running, monitor_task, pc, cancel_requested, sleep_seconds,
                  pass_vars, store_vars, table_vars, ext_vars, immediate_return, passes, faults >>

\* _run_scheduled_quality_check, lines 73-88: `except Exception` logs the
\* failure of the pass; nothing is raised to the loop.
ScheduledCheckRaises(failed) == FALSE

\* _monitoring_loop, lines 56-67: the sleep that follows the check.
LoopSleepSeconds(failed) ==
  IF ScheduledCheckRaises(failed) THEN BACKOFF_SECONDS
  ELSE check_interval_minutes * 60

\* _monitoring_loop, lines 54-67: where the loop is after the check, whether
\* the pass failed or not: in a sleep, from which it iterates again.
LoopPcAfterCheckBreak(failed) == IF failed THEN "done" ELSE "sleep"
LoopPcAfterCheck(failed) == "sleep"

\* The locals of a loop task that has ended.
TaskEnds(t) ==
  /\ pc' = [pc EXCEPT ![t] = "done"]
  /\ sleep_seconds' = [sleep_seconds EXCEPT ![t] = 0]
  /\ pass_no' = [pass_no EXCEPT ![t] = 0]
  /\ results' = [results EXCEPT ![t] = NoResults]
  /\ raised_in' = [raised_in EXCEPT ![t] = {}]
  /\ outcome' = [outcome EXCEPT ![t] = "none"]
  /\ session_new' = [session_new EXCEPT ![t] = <<>>]
  /\ alerts_todo' = [alerts_todo EXCEPT ![t] = <<>>]

\* CancelledError is thrown into the loop task at the await it is suspended
\* in.  No handler below the loop catches it (`except Exception` does not);
\* the session is closed with its uncommitted objects and the task ends.
TaskCancelled(t) ==
  /\ cancel_requested[t]
  /\ ~Finished(t)
  /\ TaskEnds(t)
  /\ UNCHANGED << monitor_vars, store_vars, table_vars, ext_vars, immediate_return, passes, faults >>

\* ------------------------------------------- run_comprehensive_quality_check
\* A cancelled loop task takes no further step of its own.
Runnable(p) == p \in Tasks => ~cancel_requested[p]

\* Which sub-checks let a failing query escape to the pass: the energy and
\* weather checks have no handler; _check_system_health catches and returns
\* its zero result (lines 234-241).
SubCheckPropagatesEnergyOnly(which) == which = "energy"
SubCheckPropagates(which) == which \in {"energy", "weather"}

\* An awaited operation either succeeds or raises; raising is bounded.
Fault(ok) ==
  /\ ok \/ faults < MaxFaults
  /\ faults' = IF ok THEN faults ELSE faults + 1

\* The results of a pass that does not raise (lines 38-53): the three
\* sub-check results and the overall score.  A failing health check has
\* returned its zero result.
PassResults(bad) ==
  LET e == _check_energy_data_quality(energy_consumption)
      w == _check_weather_data_quality(weather_data)
      sys == _check_system_health(energy_consumption, bad # "health")
  IN  [energy_data |-> e, weather_data |-> w, system_health |-> sys,
       overall_score |-> _calculate_overall_score(OverallInputs(e, w, sys))]

\* run_comprehensive_quality_check from its entry, with a session of its
\* own, to the `await db.commit()` of _store_quality_metrics: the three
\* sub-checks in turn (lines 38-40), the overall score (lines 43-53) and the
\* five db.add calls.  bad names the sub-check whose query raises ("none":
\* no query does).  The sub-checks only read the monitored tables, which no
\* step changes, so the awaits between them are taken in one step.
RunChecks(p) ==
  /\ passes < MaxPasses
  /\ passes' = passes + 1
  /\ pass_no' = [pass_no EXCEPT ![p] = passes + 1]
  /\ alerts_todo' = [alerts_todo EXCEPT ![p] = <<>>]
  /\ \E bad \in {"none", "energy", "weather", "health"} :
       /\ Fault(bad = "none")
       /\ raised_in' = [raised_in EXCEPT ![p] = IF bad = "none" THEN {} ELSE {bad}]
       /\ IF bad # "none" /\ SubCheckPropagates(bad)
          THEN /\ results' = [results EXCEPT ![p] = NoResults]
               /\ outcome' = [outcome EXCEPT ![p] = "raised"]
               /\ session_new' = [session_new EXCEPT ![p] = <<>>]
               /\ pc' = [pc EXCEPT ![p] = IF p \in Tasks THEN LoopPcAfterCheck(TRUE)
                                          ELSE "idle"]
               /\ sleep_seconds' = IF p \in Tasks
                                   THEN [sleep_seconds EXCEPT ![p] = LoopSleepSeconds(TRUE)]
                                   ELSE sleep_seconds
          ELSE \E m \in {PassResults(bad)} :
                 /\ results' = [results EXCEPT ![p] = m]
                 /\ outcome' = [outcome EXCEPT ![p] = "running"]
                 /\ session_new' = [session_new EXCEPT ![p] =
                                      PassMetricRows(passes + 1, clock, m)]
                 /\ pc' = [pc EXCEPT ![p] = "store"]
                 /\ sleep_seconds' = IF p \in Tasks
                                     THEN [sleep_seconds EXCEPT ![p] = 0]
                                     ELSE sleep_seconds

\* _monitoring_loop, line 54, at the task's first step or on its return from
\* the sleep: `while self.is_running` starts the next scheduled pass
\* (_run_scheduled_quality_check) or ends the task.
MonitoringLoop(t) ==
  /\ pc[t] \in {"new", "sleep"}
  /\ ~cancel_requested[t]
  /\ IF is_running
     THEN RunChecks(t)
     ELSE /\ TaskEnds(t)
          /\ UNCHANGED << passes, faults >>
  /\ UNCHANGED << monitor_vars, store_vars, table_vars, ext_vars, immediate_return >>

\* run_immediate_check (lines 174-176) and the task of the run-check endpoint
\* (main.py, run_quality_check_with_updates) run a pass of their own.
run_immediate_check_stopping ==
  /\ pc[Imm] = "idle"
  /\ RunChecks(Imm)
  /\ immediate_return' = IF outcome'[Imm] = "raised"
                          THEN ImmediateFailed(raised_in'[Imm]) ELSE NoReturn
  /\ is_running' = FALSE
  /\ UNCHANGED << monitor_task, cancel_requested, caller, store_vars, table_vars, ext_vars >>
run_immediate_check ==
  /\ pc[Imm] = "idle"
  /\ RunChecks(Imm)
  /\ immediate_return' = IF outcome'[Imm] = "raised"
                          THEN ImmediateFailed(raised_in'[Imm]) ELSE NoReturn
  /\ UNCHANGED << monitor_vars, store_vars, table_vars, ext_vars >>

run_quality_check ==
  /\ pc[Adm] = "idle"
  /\ RunChecks(Adm)
  /\ UNCHANGED << monitor_vars, store_vars, table_vars, ext_vars, immediate_return >>

\* What follows the return of run_comprehensive_quality_check: the monitor
\* evaluates its alerts (scheduled and immediate passes), the loop then
\* logs the overall score; the endpoint's task is done.
AfterAlerts(p) == IF p \in Tasks THEN "log" ELSE "idle"
AfterPass(p) ==
  LET todo == IF p = Adm THEN <<>> ELSE AlertsFor(results[p])
  IN  /\ alerts_todo' = [alerts_todo EXCEPT ![p] = todo]
      /\ pc' = [pc EXCEPT ![p] = IF todo # <<>> THEN "alerts" ELSE AfterAlerts(p)]

\* run_immediate_check returns (line 183) once its alert evaluation is over.
ImmediateReturns(p) ==
  immediate_return' = IF p = Imm /\ pc'[p] = "idle"
                      THEN ImmediateCompleted(results[p]) ELSE immediate_return

\* _store_quality_metrics, lines 352-357: the commit of the five rows, or the
\* rollback when it raises; either way the pass returns its result.
StoreQualityMetrics(p) ==
  /\ pc[p] = "store"
  /\ Runnable(p)
  /\ \E failAt \in 0..Len(session_new[p]) :
       /\ Fault(failAt = 0)
       /\ data_quality_metrics' =
            DbInsert(data_quality_metrics, RowsCommitted(session_new[p], failAt))
       /\ stored_log' = IF failAt = 0 THEN stored_log \cup {pass_no[p]} ELSE stored_log
  /\ session_new' = [session_new EXCEPT ![p] = <<>>]
  /\ outcome' = [outcome EXCEPT ![p] = "returned"]
  /\ AfterPass(p)
  /\ ImmediateReturns(p)
  /\ UNCHANGED << monitor_vars, sleep_seconds, pass_no, results, raised_in,
                  data_quality_issues, table_vars, ext_vars, passes >>

\* _create_quality_alert for the next alert: the issue is stored and
\* committed, or the failure is logged and swallowed.
CreateQualityAlertRaising(p) ==
  /\ pc[p] = "alerts"
  /\ Runnable(p)
  /\ \E ok \in BOOLEAN :
       /\ Fault(ok)
       /\ data_quality_issues' =
            IF ok THEN data_quality_issues \cup {IssueRow(NextIssueId, pass_no[p], Head(alerts_todo[p]))}
            ELSE data_quality_issues
       /\ alerts_todo' = [alerts_todo EXCEPT ![p] = IF ok THEN Tail(@) ELSE <<>>]
       /\ outcome' = [outcome EXCEPT ![p] = IF ok THEN @ ELSE "raised"]
       /\ pc' = [pc EXCEPT ![p] =
                   IF ok THEN (IF Len(alerts_todo[p]) = 1 THEN AfterAlerts(p) ELSE "alerts")
                   ELSE IF p \in Tasks THEN "sleep" ELSE "idle"]
       /\ sleep_seconds' = IF ~ok /\ p \in Tasks
                           THEN [sleep_seconds EXCEPT ![p] = LoopSleepSeconds(TRUE)]
                           ELSE sleep_seconds
       /\ immediate_return' =
            IF p = Imm /\ pc'[p] = "idle"
            THEN (IF ok THEN ImmediateCompleted(results[p]) ELSE ImmediateFailed({"alert"}))
            ELSE immediate_return
  /\ UNCHANGED << monitor_vars, pass_no, results, raised_in,
                  session_new, data_quality_metrics, stored_log, table_vars, ext_vars, passes >>
CreateQualityAlert(p) ==
  /\ pc[p] = "alerts"
  /\ Runnable(p)
  /\ \E ok \in BOOLEAN :
       /\ Fault(ok)
       /\ data_quality_issues' =
            IF ok THEN data_quality_issues \cup {IssueRow(NextIssueId, pass_no[p], Head(alerts_todo[p]))}
            ELSE data_quality_issues
  /\ alerts_todo' = [alerts_todo EXCEPT ![p] = Tail(@)]
  /\ pc' = [pc EXCEPT ![p] = IF Len(alerts_todo[p]) = 1 THEN AfterAlerts(p) ELSE "alerts"]
  /\ ImmediateReturns(p)
  /\ UNCHANGED << monitor_vars, sleep_seconds, pass_no, results, raised_in, outcome,
                  session_new, data_quality_metrics, stored_log, table_vars, ext_vars, passes >>

\* _log_monitoring_check, then the loop's sleep (line 59).
LogMonitoringCheck(t) ==
  /\ t \in Tasks
  /\ pc[t] = "log"
  /\ Runnable(t)
  /\ \E ok \in BOOLEAN :
       /\ Fault(ok)
       /\ data_quality_metrics' =
            IF ok THEN DbInsert(data_quality_metrics, {OverallRow(pass_no[t], clock, results[t])})
            ELSE data_quality_metrics
  /\ pc' = [pc EXCEPT ![t] = LoopPcAfterCheck(FALSE)]
  /\ sleep_seconds' = [sleep_seconds EXCEPT ![t] = LoopSleepSeconds(FALSE)]
  /\ UNCHANGED << monitor_vars, pass_vars, data_quality_issues, stored_log,
                  table_vars, ext_vars, immediate_return, passes >>

\* ------------------------------------------------------------- the dashboard
\* The system clock: the next reading of datetime.now() is later than the
\* last one.  Readings with no tick between them are equal.
ClockTick ==
  /\ clock < MaxPasses + 1
  /\ clock' = clock + 1
  /\ UNCHANGED << monitor_vars, pc, sleep_seconds, pass_vars, store_vars, table_vars,
                  immediate_return, resolve_return, ingest_return, energy_check,
                  quality_scores, passes, faults >>

\* get_quality_dashboard_data (lines 385-409): the view's quality_scores, or
\* the failure of a query re-raised to the caller.
get_quality_dashboard_data ==
  /\ \E ok \in BOOLEAN :
       /\ Fault(ok)
       /\ quality_scores' =
            IF ok THEN _convert_metrics_to_scores(_get_latest_quality_metrics(data_quality_metrics))
            ELSE quality_scores
  /\ UNCHANGED << monitor_vars, pc, sleep_seconds, pass_vars, store_vars, table_vars,
                  immediate_return, resolve_return, ingest_return, energy_check, clock,
                  passes >>

\* ---------------------------------------------------------------- ingestion
\* The records a batch is made of: one with the (region, timestamp,
\* energy_type) of a stored row and two with keys of their own.
IngestRecords ==
  { ERow("CAL", 995, <<650>>, NOW), ERow("AZ", 996, <<400>>, NOW),
    ERow("NV", 996, <<300>>, NOW) }
Batches == UNION {[1..n -> IngestRecords] : n \in 1..MaxBatch}

\* The unique index ix_energy_region_time_type: an INSERT of r raises
\* IntegrityError beside a row of the same key, stored or inserted earlier
\* in the transaction.
ViolatesUnique(tbl, flushed, r) ==
  \E x \in {tbl[i] : i \in DOMAIN tbl} \cup {flushed[i] : i \in DOMAIN flushed} :
    EnergyKey(x) = EnergyKey(r)
RECURSIVE BulkViolates(_, _, _)
BulkViolates(tbl, flushed, records) ==
  IF records = <<>> THEN FALSE
  ELSE \/ ViolatesUnique(tbl, flushed, Head(records))
       \/ BulkViolates(tbl, Append(flushed, Head(records)), Tail(records))

\* EnergyRepository._insert_with_duplicate_handling, lines 29-50: add and
\* flush record by record.  IntegrityError rolls the transaction back, and
\* with it the records flushed before; created_count keeps counting them.
\* (The flushes raise on duplicates only.)
RECURSIVE InsertEach(_, _, _, _, _)
InsertEach(tbl, records, flushed, created, skipped) ==
  IF records = <<>>
  THEN [flushed |-> flushed, created |-> created, skipped |-> skipped, errors |-> 0]
  ELSE IF ViolatesUnique(tbl, flushed, Head(records))
       THEN InsertEach(tbl, Tail(records), <<>>, created, skipped + 1)
       ELSE InsertEach(tbl, Tail(records), Append(flushed, Head(records)),
                       created + 1, skipped)

\* Lines 52-62: the commit of what the transaction holds (its failure is
\* logged and rolled back) and the counts returned either way.
_insert_with_duplicate_handling(tbl, records, commits) ==
  LET done == InsertEach(tbl, records, <<>>, 0, 0)
  IN  [table |-> IF commits THEN tbl \o done.flushed ELSE tbl,
       return |-> [status |-> "returned", created |-> done.created,
                   skipped |-> done.skipped, errors |-> done.errors]]

\* EnergyRepository.create_energy_records: every record is added and counted
\* (lines 74-86), then one commit (line 94).  IntegrityError: rollback and
\* the record-by-record retry (lines 96-100); another exception: rollback and
\* re-raise (lines 101-104).  bad names the commit that raises for a reason
\* other than a duplicate.
create_energy_records ==
  \E records \in Batches, bad \in {"none", "bulk", "retry"} :
    LET duplicates == BulkViolates(energy_consumption, <<>>, records)
        retry == _insert_with_duplicate_handling(energy_consumption, records,
                                                 bad # "retry")
    IN  /\ bad = "retry" => duplicates
        /\ Fault(bad = "none")
        /\ IF bad = "bulk"
           THEN /\ energy_consumption' = energy_consumption
                /\ ingest_return' = [status |-> "raised"]
           ELSE IF duplicates
           THEN /\ energy_consumption' = retry.table
                /\ ingest_return' = retry.return
           ELSE /\ energy_consumption' = energy_consumption \o records
                /\ ingest_return' = [status |-> "returned", created |-> Len(records),
                                     skipped |-> 0, errors |-> 0]
        /\ UNCHANGED << monitor_vars, pc, sleep_seconds, pass_vars, store_vars,
                        weather_data, immediate_return, resolve_return, energy_check,
                        clock, quality_scores, passes >>

\* _check_energy_data_quality query by query, on a session of its own: each
\* awaited query reads the rows committed when it runs.
CheckStep(now) ==
  /\ energy_check' = now
  /\ UNCHANGED << monitor_vars, pc, sleep_seconds, pass_vars, store_vars, table_vars,
                  immediate_return, resolve_return, ingest_return, clock,
                  quality_scores, passes, faults >>

\* Lines 74-87: the total count; the empty window returns at once.
EnergyTotalQuery ==
  /\ energy_check.pc \in {"idle", "done"}
  /\ LET total == TotalRecords(energy_consumption)
     IN  CheckStep(IF total = 0
                   THEN [pc |-> "done", total_records |-> 0,
                         result |-> EnergyResult(0, 0, 0, 0, <<>>)]
                   ELSE [pc |-> "completeness", total_records |-> total])

\* Lines 90-100.
EnergyCompletenessQuery ==
  /\ energy_check.pc = "completeness"
  /\ CheckStep([pc |-> "accuracy", total_records |-> energy_check.total_records,
                complete_records |-> CompleteRecords(energy_consumption)])

\* Lines 103-113.
EnergyAccuracyQuery ==
  /\ energy_check.pc = "accuracy"
  /\ CheckStep([pc |-> "consistency", total_records |-> energy_check.total_records,
                complete_records |-> energy_check.complete_records,
                accurate_records |-> AccurateRecords(energy_consumption)])

\* Lines 116-146: the duplicate query, the issue queries (which read no
\* count) and the result.
EnergyConsistencyQuery ==
  /\ energy_check.pc = "consistency"
  /\ CheckStep([pc |-> "done", total_records |-> energy_check.total_records,
                result |-> EnergyResult(energy_check.total_records,
                                        energy_check.complete_records,
                                        energy_check.accurate_records,
                                        DuplicateCount(energy_consumption),
                                        _find_energy_data_issues(energy_consumption))])

\* -------------------------------------------------------- issue resolution
ResolutionNotes == {"fixed upstream", "false alarm"}

\* PUT /quality/issues/{issue_id}/resolve (main.py, lines 876-892) around
\* QualityRepository.resolve_quality_issue: ValueError gives 404, any other
\* exception 500.  bad names the awaited statement that raises.
ResolveStatusMissingOk(found, bad) ==
  IF bad = "select" THEN "error"
  ELSE IF bad = "commit" THEN "error"
  ELSE "success"
ResolveStatus(found, bad) ==
  IF bad = "select" THEN "error"
  ELSE IF ~found THEN "not_found"
  ELSE IF bad = "commit" THEN "error"
  ELSE "success"

\* The request for issue_id, which names a stored row or the next free id.
\* The passes only insert rows, so the select, the assignments and the
\* commit of the one request are taken in one step.
resolve_quality_issue ==
  \E issue_id \in 1..NextIssueId, notes \in ResolutionNotes,
     bad \in {"none", "select", "commit"} :
    LET found == {r \in data_quality_issues : r.id = issue_id}
        status == ResolveStatus(found # {}, bad)
        resolved == {ResolvedIssue(r, notes, clock) : r \in found}
    IN  /\ bad = "commit" => found # {}
        /\ Fault(bad = "none")
        /\ data_quality_issues' =
             IF status = "success" THEN (data_quality_issues \ found) \cup resolved
             ELSE data_quality_issues
        /\ resolve_return' =
             [status |-> status, issue_id |-> issue_id,
              issue |-> IF status = "success" THEN resolved ELSE {}]
        /\ UNCHANGED << monitor_vars, pc, sleep_seconds, pass_vars, data_quality_metrics,
                        stored_log, table_vars, immediate_return, ingest_return,
                        energy_check, clock, quality_scores, passes >>

\* ----------------------------------------------------------- specification
\* Every operation of the engine.
Next ==
  \/ start_monitoring
  \/ \E c \in Callers : stop_monitoring(c)
  \/ \E c \in Callers : StopAwaitDone(c)
  \/ \E c \in Callers : StopReturned(c)
  \/ \E t \in Tasks : MonitoringLoop(t)
  \/ \E t \in Tasks : TaskCancelled(t)
  \/ run_immediate_check
  \/ run_quality_check
  \/ \E p \in Procs : StoreQualityMetrics(p)
  \/ \E p \in Procs : CreateQualityAlert(p)
  \/ \E t \in Tasks : LogMonitoringCheck(t)

Spec == Init /\ [][Next]_vars

\* The monitor's lifecycle: start and stop calls in any interleaving with the
\* loop tasks and their scheduled passes (no manual pass is requested).
MonitorNext ==
  \/ start_monitoring
  \/ \E c \in Callers : stop_monitoring(c)
  \/ \E c \in Callers : StopAwaitDone(c)
  \/ \E c \in Callers : StopReturned(c)
  \/ \E t \in Tasks : MonitoringLoop(t)
  \/ \E t \in Tasks : TaskCancelled(t)
  \/ \E t \in Tasks : StoreQualityMetrics(t)
  \/ \E t \in Tasks : CreateQualityAlert(t)
  \/ \E t \in Tasks : LogMonitoringCheck(t)

MonitorSpec == Init /\ [][MonitorNext]_vars

\* Overlapping passes: the scheduled loop of a started monitor, immediate
\* checks and run-check requests in any interleaving (the monitor is not
\* stopped).
PassNext ==
  \/ start_monitoring
  \/ \E t \in Tasks : MonitoringLoop(t)
  \/ run_immediate_check
  \/ run_quality_check
  \/ \E p \in Procs : StoreQualityMetrics(p)
  \/ \E p \in Procs : CreateQualityAlert(p)
  \/ \E t \in Tasks : LogMonitoringCheck(t)

PassSpec == Init /\ [][PassNext]_vars

\* The same, with the event loop resuming a loop task whose sleep is over.
LiveSpec ==
  /\ PassSpec
  /\ \A t \in Tasks : WF_vars(MonitoringLoop(t))

\* Populations whose pass raises more than one alert: no energy record in the
\* window (HIGH, energy completeness, energy accuracy), and one NULL
\* consumption among four records (energy completeness, energy accuracy).
AlertPopulations ==
  { << <<>>, << WRow("CAL", 990, <<70>>, <<40>>, <<1013>>) >> >>,
    << << ERow("CAL", 995, <<500>>, 996), ERow("TEX", 995, NULL, 996),
          ERow("NY", 995, <<300>>, 996), ERow("FLA", 995, <<200>>, 996) >>,
       << WRow("CAL", 990, <<70>>, <<40>>, <<1013>>) >> >> }
AlertInit ==
  /\ InitEngine
  /\ \E pop \in AlertPopulations :
       /\ energy_consumption = pop[1]
       /\ weather_data = pop[2]

\* Scheduled and immediate passes over them, with their alert evaluation.
AlertNext ==
  \/ start_monitoring
  \/ \E t \in Tasks : MonitoringLoop(t)
  \/ run_immediate_check
  \/ \E p \in Tasks \cup {Imm} : StoreQualityMetrics(p)
  \/ \E p \in Tasks \cup {Imm} : CreateQualityAlert(p)
  \/ \E t \in Tasks : LogMonitoringCheck(t)

AlertSpec == AlertInit /\ [][AlertNext]_vars

\* Immediate checks in any interleaving with the monitor's lifecycle: start
\* and stop calls and loop tasks that begin their scheduled pass; the commit
\* of a scheduled pass stays pending until the task is cancelled.
ImmediateNext ==
  \/ start_monitoring
  \/ \E c \in Callers : stop_monitoring(c)
  \/ \E c \in Callers : StopAwaitDone(c)
  \/ \E c \in Callers : StopReturned(c)
  \/ \E t \in Tasks : MonitoringLoop(t)
  \/ \E t \in Tasks : TaskCancelled(t)
  \/ run_immediate_check
  \/ StoreQualityMetrics(Imm)
  \/ CreateQualityAlert(Imm)

ImmediateSpec == Init /\ [][ImmediateNext]_vars

\* Immediate checks whose alerts become issues, and requests resolving them
\* (all within one reading of the clock).
IssueNext ==
  \/ run_immediate_check
  \/ StoreQualityMetrics(Imm)
  \/ CreateQualityAlert(Imm)
  \/ resolve_quality_issue

IssueSpec == Init /\ [][IssueNext]_vars

\* Immediate checks and run-check requests, overlapping or one after the
\* other, each stamping its rows with the clock's reading.
LatestNext ==
  \/ ClockTick
  \/ run_immediate_check
  \/ run_quality_check
  \/ \E p \in {Imm, Adm} : StoreQualityMetrics(p)
  \/ CreateQualityAlert(Imm)

LatestSpec == Init /\ [][LatestNext]_vars

\* Ingestion beside an energy check: batches are committed between the
\* check's queries.  The run starts with one energy record stored.
IngestInit ==
  /\ InitEngine
  /\ energy_consumption = << ERow("CAL", 995, <<500>>, 996) >>
  /\ weather_data = <<>>

IngestNext ==
  \/ create_energy_records
  \/ EnergyTotalQuery
  \/ EnergyCompletenessQuery
  \/ EnergyAccuracyQuery
  \/ EnergyConsistencyQuery

IngestSpec == IngestInit /\ [][IngestNext]_vars

\* The dashboard over a metric history: the overall_quality_score row an
\* earlier run of the monitor has logged, with a score at or beside a band
\* threshold, and the rows of this run's immediate checks over the population
\* of three records.
ScoreSamples == {0, 6990, 6999, 7000, 8499, 8500, 9490, 9499, 9500, 10000}
DashInit ==
  /\ InitRun
  /\ \E pop \in {q \in Populations : Len(q[1]) = 3} :
       /\ energy_consumption = pop[1]
       /\ weather_data = pop[2]
  /\ \E v \in ScoreSamples :
       data_quality_metrics = {OverallRow(0, 0, [overall_score |-> v])}

DashNext ==
  \/ ClockTick
  \/ run_immediate_check
  \/ StoreQualityMetrics(Imm)
  \/ CreateQualityAlert(Imm)
  \/ get_quality_dashboard_data

DashSpec == DashInit /\ [][DashNext]_vars

\* Immediate checks one after the other, over the calculator's populations.
CalcNext ==
  \/ run_immediate_check
  \/ StoreQualityMetrics(Imm)
  \/ CreateQualityAlert(Imm)

CalcSpec == CalcInit /\ [][CalcNext]_vars

\* ------------------------------------------------------------------ claims
PerTableRows(n) ==
  {r \in data_quality_metrics :
     r.pass = n /\ r.table_name \in {"energy_consumption", "weather_data"}}

\* C1: after any interleaving of start_monitoring and stop_monitoring calls
\* at most one loop task is active (created, not ended, not cancelled), and
\* while the monitor stays RUNNING no step creates a loop task or changes the
\* task handle (a start on a RUNNING monitor is a no-op).
C1_AtMostOneActiveLoop ==
  /\ [](Cardinality({t \in Tasks : Active(t)}) <= 1)
  /\ [][(is_running /\ is_running') =>
          /\ monitor_task' = monitor_task
          /\ \A t \in Tasks : pc[t] = "none" => pc'[t] = "none"]_vars
\* A stop is still awaiting the task it cancelled while a later start has
\* made the one active task.
C1_Witness ==
  \E t1, t2 \in Tasks :
    /\ ~Finished(t1)
    /\ cancel_requested[t1]
    /\ Active(t2)
    /\ \E c \in Callers : caller[c].pc = "awaiting" /\ caller[c].task = t1

\* C2: whenever a stop_monitoring call returns, the loop task that existed
\* when the call was made has ended, also when the call overlaps another
\* stop_monitoring or start_monitoring call.
C2_StopReturnsAfterTaskEnded ==
  [][\A c \in Callers :
       (caller[c].pc # "returned" /\ caller'[c].pc = "returned") =>
         LET t == IF caller[c].pc = "awaiting" THEN caller[c].task ELSE monitor_task
         IN  t = 0 \/ Finished(t)]_vars

\* C3: a stop_monitoring call does not abort a scheduled pass in flight: a
\* loop task inside a pass stays in it or reaches the sleep after it.
C3_InFlightPassNotAborted ==
  [][\A t \in Tasks : pc[t] \in InPass => pc'[t] \in InPass \cup {"sleep"}]_vars

\* C4: while the monitor is not stopped, a scheduled pass that failed is
\* followed by another pass of the same loop (as long as the run's bound on
\* passes allows one).  The monitor that is never stopped keeps the one loop
\* task in monitor_task.
C4_FailedPassIsRetried ==
  \A n \in 1..MaxPasses :
    (monitor_task # 0 /\ outcome[monitor_task] = "raised" /\ pass_no[monitor_task] = n)
      ~> (passes = MaxPasses \/ (monitor_task # 0 /\ pass_no[monitor_task] > n))
\* The loop sleeps after a pass that raised, and another pass is possible.
C4_Witness ==
  \E t \in Tasks :
    /\ pc[t] = "sleep"
    /\ outcome[t] = "raised"
    /\ passes < MaxPasses

\* C5: after a failed scheduled pass the loop sleeps the 5-minute backoff,
\* after a successful one check_interval.
C5_BackoffAfterFailedPass ==
  \A t \in Tasks :
    pc[t] = "sleep" =>
      sleep_seconds[t] = IF outcome[t] = "raised" THEN BACKOFF_SECONDS
                         ELSE check_interval_minutes * 60

\* C6 as claimed: overall_score is the mean of the energy and the weather
\* completeness score alone, rounded to 2 decimals.
C6_OverallIsMeanOfCompleteness ==
  \A p \in Procs :
    LET m == results[p]
    IN  Abs(2 * m.overall_score
            - (m.energy_data.completeness_score + m.weather_data.completeness_score)) <= 1
\* C6 as amended: overall_score is the mean of three scores, the energy
\* completeness, the weather completeness and the system health_score,
\* rounded to 2 decimals (within half a hundredth of the exact mean).
C6_OverallIsMeanOfThree ==
  \A p \in Procs :
    LET m == results[p]
    IN  2 * Abs(3 * m.overall_score
                - (m.energy_data.completeness_score + m.weather_data.completeness_score
                   + m.system_health.health_score)) <= 3
\* A pass whose health score differs from both completeness scores.
C6_Witness ==
  \E p \in Procs :
    /\ pc[p] = "store"
    /\ results[p].system_health.health_score > 0
    /\ results[p].system_health.health_score # results[p].energy_data.completeness_score
    /\ results[p].system_health.health_score # results[p].weather_data.completeness_score

\* C7 as claimed: a pass in which any sub-check failed (energy, weather or
\* system health) has raised.
C7_AnySubCheckFailureFailsPass ==
  \A p \in Procs : raised_in[p] # {} => outcome[p] = "raised"
\* C7 as amended: a pass whose energy or weather check raised has raised; a
\* failure inside the system-health check is caught there, the pass goes on
\* with health_score 0.0 and does not raise.
C7_EnergyOrWeatherFailureFailsPass ==
  \A p \in Procs :
    /\ raised_in[p] \cap {"energy", "weather"} # {} => outcome[p] = "raised"
    /\ "health" \in raised_in[p] =>
         /\ outcome[p] \in {"running", "returned"}
         /\ results[p].system_health.health_score = 0
\* A pass has raised on the failure of its weather check.
C7_Witness ==
  \E p \in Procs : raised_in[p] = {"weather"} /\ outcome[p] = "raised"

\* C8: whenever run_comprehensive_quality_check has returned a result, the
\* five metric rows computed by that pass are committed.
C8_ReturnedPassIsStored ==
  \A p \in Procs :
    outcome[p] = "returned" =>
      \E at \in 1..clock :
        \A i \in 1..5 : PassMetricRows(pass_no[p], at, results[p])[i] \in data_quality_metrics

\* C9: every pass leaves either all five of its per-table metric rows in the
\* store or none of them.
C9_AllFiveOrNone ==
  \A n \in 1..MaxPasses : Cardinality(PerTableRows(n)) \in {0, 5}
\* One pass has stored its five rows, another failed in its commit and has
\* returned with none stored.
C9_Witness ==
  \E p, q \in Procs :
    /\ outcome[p] = "returned" /\ Cardinality(PerTableRows(pass_no[p])) = 5
    /\ outcome[q] = "returned" /\ PerTableRows(pass_no[q]) = {}

\* C10: no step modifies or deletes a committed metric row, and the five rows
\* of every pass that stored successfully stay present, whatever passes
\* overlap.
C10_InsertOnly ==
  /\ [][data_quality_metrics \subseteq data_quality_metrics']_vars
  /\ [](\A n \in stored_log : Cardinality(PerTableRows(n)) = 5)
\* A pass that started earlier is still waiting for its commit while a later
\* pass has stored its rows.
C10_Witness ==
  \E p, q \in Procs :
    /\ pc[p] = "store"
    /\ pass_no[p] < pass_no[q]
    /\ pass_no[q] \in stored_log

\* ------------------------------------------------- claims on the calculator
\* The passes whose results are computed: every sub-check has returned.
Computed(p) == outcome[p] \in {"running", "returned"}
InWindowRows == {i \in DOMAIN energy_consumption : EnergyInWindow(energy_consumption[i])}
WeatherWindowEmpty == \A i \in DOMAIN weather_data : ~WeatherInWindow(weather_data[i])
\* score is round(part / total * 100, 2): within half a hundredth of it.
IsPercentOf(score, part, total) == 2 * Abs(score * total - part * 10000) <= total

\* C16 as claimed: a monitored table with no record in its window gets
\* completeness, accuracy and consistency 0.0 and an empty issue list, and
\* the pass does not fail.
C16_EmptyWindowAllThreeZero ==
  \A p \in Procs : \A t \in {"energy_data", "weather_data"} :
    (Computed(p) /\ results[p][t].total_records = 0) =>
      /\ results[p][t].completeness_score = 0
      /\ results[p][t].accuracy_score = 0
      /\ "consistency_score" \in DOMAIN results[p][t]
      /\ results[p][t].consistency_score = 0
      /\ results[p][t].issues = <<>>
\* C16 as amended: with no record in its window the energy table gets
\* completeness, accuracy and consistency 0.0, the weather table (which has
\* no consistency score) completeness and accuracy 0.0, both an empty issue
\* list; a pass none of whose queries raises does not fail on such a table.
C16_EmptyWindowScoresZero ==
  /\ \A p \in Procs : \A t \in {"energy_data", "weather_data"} :
       (Computed(p) /\ results[p][t].total_records = 0) =>
         /\ results[p][t].completeness_score = 0
         /\ results[p][t].accuracy_score = 0
         /\ t = "energy_data" => results[p][t].consistency_score = 0
         /\ t = "weather_data" => "consistency_score" \notin DOMAIN results[p][t]
         /\ results[p][t].issues = <<>>
  /\ \A p \in Procs :
       (faults = 0 /\ pass_no[p] > 0 /\ (InWindowRows = {} \/ WeatherWindowEmpty))
         => Computed(p)
\* A pass has returned over two tables without a record in their windows.
C16_Witness ==
  /\ outcome[Imm] = "returned"
  /\ energy_consumption = <<>>
  /\ weather_data # <<>>
  /\ results[Imm].energy_data.total_records = 0
  /\ results[Imm].weather_data.total_records = 0

\* C17: every score a pass computes lies in [0, 100]: completeness, accuracy
\* and consistency of each table, the health score with its data freshness,
\* and overall_score.
C17_ScoresWithinRange ==
  \A p \in Procs :
    LET m == results[p]
        Ok(x) == 0 <= x /\ x <= 10000
    IN  /\ Ok(m.energy_data.completeness_score)
        /\ Ok(m.energy_data.accuracy_score)
        /\ Ok(m.energy_data.consistency_score)
        /\ Ok(m.weather_data.completeness_score)
        /\ Ok(m.weather_data.accuracy_score)
        /\ Ok(m.system_health.data_freshness)
        /\ Ok(m.system_health.health_score)
        /\ Ok(m.overall_score)

C19_DuplicateAccounting ==
  \A p \in Procs :
    LET e == results[p].energy_data
        extras == {i \in InWindowRows : \E j \in InWindowRows :
                     j < i /\ EnergyKey(energy_consumption[j]) = EnergyKey(energy_consumption[i])}
    IN  (Computed(p) /\ e.total_records > 0) =>
          /\ e.duplicate_count = Cardinality(extras)
          /\ IsPercentOf(e.consistency_score, e.total_records - e.duplicate_count,
                         e.total_records)
          /\ energy_consumption = EnergyTenWithTriple =>
               e.duplicate_count = 2 /\ e.consistency_score = 8000
\* The pass over the 10 records with a group of 3 has computed its results.
C19_Witness ==
  /\ energy_consumption = EnergyTenWithTriple
  /\ Computed(Imm)
  /\ results[Imm].energy_data.duplicate_count = 2

\* C20 as claimed: over a non-empty energy population completeness is the
\* share of records with consumption, region and energy type present and
\* accuracy the share of records whose consumption lies in [0, 1000000].
C20_CompletenessAndRangeAccuracy ==
  \A p \in Procs :
    LET e == results[p].energy_data
        present == {i \in InWindowRows :
                      /\ energy_consumption[i].consumption_mwh # NULL
                      /\ energy_consumption[i].region # NULL
                      /\ energy_consumption[i].energy_type # NULL}
        inrange == {i \in InWindowRows :
                      /\ energy_consumption[i].consumption_mwh # NULL
                      /\ energy_consumption[i].consumption_mwh[1] \in 0..1000000}
    IN  (Computed(p) /\ e.total_records > 0) =>
          /\ IsPercentOf(e.completeness_score, Cardinality(present), e.total_records)
          /\ IsPercentOf(e.accuracy_score, Cardinality(inrange), e.total_records)
\* C20 as amended: accuracy is the share of records whose consumption lies
\* in [0, 1000000] and whose timestamp is not later than the time of the
\* check; 100 records with 90 complete, 85 in range and no duplicates give
\* 90.0, 85.0 and 100.0.
C20_CompletenessAndAccuracy ==
  \A p \in Procs :
    LET e == results[p].energy_data
        present == {i \in InWindowRows :
                      /\ energy_consumption[i].consumption_mwh # NULL
                      /\ energy_consumption[i].region # NULL
                      /\ energy_consumption[i].energy_type # NULL}
        valid == {i \in InWindowRows :
                    /\ energy_consumption[i].consumption_mwh # NULL
                    /\ energy_consumption[i].consumption_mwh[1] \in 0..1000000
                    /\ energy_consumption[i].timestamp <= NOW}
    IN  (Computed(p) /\ e.total_records > 0) =>
          /\ IsPercentOf(e.completeness_score, Cardinality(present), e.total_records)
          /\ IsPercentOf(e.accuracy_score, Cardinality(valid), e.total_records)
          /\ energy_consumption = EnergyHundred =>
               /\ e.completeness_score = 9000
               /\ e.accuracy_score = 8500
               /\ e.consistency_score = 10000
\* The pass over the 100 records has computed its results.
C20_Witness ==
  /\ energy_consumption = EnergyHundred
  /\ Computed(Imm)
  /\ results[Imm].energy_data.complete_records = 90
  /\ results[Imm].energy_data.accurate_records = 85

\* C11: alert evaluation after a pass creates exactly these issues: one HIGH
\* system-level issue iff overall_score < alert_threshold and, for each
\* monitored table, one MEDIUM issue iff its completeness < 80 and one iff
\* its accuracy < 85 (every issue write succeeding).
C11_AlertsExactlyByRule ==
  \A p \in Procs \ {Adm} :
    LET m == results[p]
        created == {r \in data_quality_issues : r.pass = pass_no[p]}
        expected ==
          {a \in {<<"HIGH", "system", "overall">>}
                  \cup ({"MEDIUM"} \X {"energy_consumption", "weather_data"}
                                  \X {"completeness", "accuracy"}) :
             \/ a[1] = "HIGH" /\ m.overall_score < alert_threshold
             \/ a = <<"MEDIUM", "energy_consumption", "completeness">>
                  /\ m.energy_data.completeness_score < 8000
             \/ a = <<"MEDIUM", "energy_consumption", "accuracy">>
                  /\ m.energy_data.accuracy_score < 8500
             \/ a = <<"MEDIUM", "weather_data", "completeness">>
                  /\ m.weather_data.completeness_score < 8000
             \/ a = <<"MEDIUM", "weather_data", "accuracy">>
                  /\ m.weather_data.accuracy_score < 8500}
    IN  (faults = 0 /\ outcome[p] = "returned" /\ pc[p] \notin {"store", "alerts"}) =>
          /\ {<<r.severity, r.about[1], r.about[2]>> : r \in created} = expected
          /\ Cardinality(created) = Cardinality(expected)
\* An immediate check has finished its alert evaluation with one HIGH issue
\* and MEDIUM issues for one table only.
C11_Witness ==
  LET created == {r \in data_quality_issues : r.pass = pass_no[Imm]}
  IN  /\ faults = 0
      /\ pc[Imm] = "idle"
      /\ outcome[Imm] = "returned"
      /\ \E r \in created : r.severity = "HIGH"
      /\ \E r \in created : r.about[1] = "energy_consumption"
      /\ \A r \in created : r.about[1] # "weather_data"

\* ------------------------------------------- claims on alerts and the monitor
\* C12: a failed alert write does not block its pass: the failure is
\* swallowed, the remaining alerts of the pass are still to be emitted, the
\* pass keeps its result, and the scheduled pass goes on to its log, the
\* immediate check to its 'completed' return.
C12_FailedAlertDoesNotBlockPass ==
  [][\A p \in Procs :
       (pc[p] = "alerts" /\ alerts_todo'[p] # alerts_todo[p] /\ faults' # faults) =>
         /\ alerts_todo'[p] = Tail(alerts_todo[p])
         /\ outcome'[p] = "returned"
         /\ results'[p] = results[p]
         /\ pc'[p] = IF Tail(alerts_todo[p]) # <<>> THEN "alerts"
                     ELSE IF p \in Tasks THEN "log" ELSE "idle"
         /\ (p = Imm /\ pc'[p] = "idle") =>
              /\ immediate_return'.status = "completed"
              /\ immediate_return'.results = results[p]]_vars
\* A pass is over whose first alert write failed and whose later alerts
\* were stored.
C12_Witness ==
  \E p \in Procs :
    LET created == {r \in data_quality_issues : r.pass = pass_no[p]}
        due == AlertsFor(results[p])
    IN  /\ outcome[p] = "returned"
        /\ pc[p] \notin {"store", "alerts"}
        /\ pass_no[p] \in stored_log
        /\ Len(due) >= 2
        /\ Cardinality(created) = Len(due) - 1
        /\ \A r \in created : <<r.severity, r.about>> # <<due[1].severity, <<due[1].table, due[1].dimension>> >>

\* C13: run_immediate_check runs one pass whether the monitor is RUNNING or
\* STOPPED, and no step of it changes is_running, the task handle or what
\* get_monitoring_status reports, whether the pass succeeds or fails.
C13_ImmediateCheckLeavesMonitor ==
  /\ [][<< pc[Imm], pass_no[Imm], outcome[Imm], alerts_todo[Imm], immediate_return >>
          # << pc[Imm], pass_no[Imm], outcome[Imm], alerts_todo[Imm], immediate_return >>' =>
          /\ is_running' = is_running
          /\ monitor_task' = monitor_task
          /\ cancel_requested' = cancel_requested
          /\ get_monitoring_status' = get_monitoring_status]_vars
  /\ [][(pc[Imm] = "idle" /\ (pc'[Imm] # "idle" \/ immediate_return' # immediate_return))
          => passes' = passes + 1]_vars
\* An immediate check has completed beside a scheduled pass in flight, and
\* the monitor is RUNNING.
C13_Witness ==
  /\ is_running
  /\ monitor_task # 0
  /\ pc[monitor_task] \in InPass
  /\ immediate_return.status = "completed"

\* C14: run_immediate_check never raises: a failed pass gives a structured
\* failure (status 'failed', the error, a timestamp), a pass that returned
\* gives status 'completed' with overall_score and the full results.
C14_ImmediateCheckReturnsStructured ==
  /\ immediate_return.status \in {"none", "completed", "failed"}
  /\ (pc[Imm] = "idle" /\ outcome[Imm] = "raised") =>
       /\ immediate_return.status = "failed"
       /\ immediate_return.error = raised_in[Imm]
       /\ DOMAIN immediate_return = {"status", "error", "timestamp"}
  /\ (pc[Imm] = "idle" /\ outcome[Imm] = "returned") =>
       /\ immediate_return.status = "completed"
       /\ immediate_return.overall_score = results[Imm].overall_score
       /\ immediate_return.results = results[Imm]
       /\ DOMAIN immediate_return = {"status", "overall_score", "timestamp", "results"}
  /\ (pc[Imm] # "idle") => immediate_return.status = "none"
\* An immediate check has returned its structured failure.
C14_Witness ==
  /\ pc[Imm] = "idle"
  /\ outcome[Imm] = "raised"
  /\ immediate_return.status = "failed"

\* C15: stop_monitoring on a STOPPED monitor changes nothing and returns;
\* from any stop_monitoring call on, get_monitoring_status reports
\* is_running false until a start_monitoring call makes a new loop task.
C15_StopIsIdempotent ==
  /\ [][\A c \in Callers :
          (caller[c].pc = "idle" /\ caller'[c].pc # "idle" /\ ~is_running) =>
            /\ caller'[c].pc = "returned"
            /\ UNCHANGED << is_running, monitor_task, pc, cancel_requested,
                            sleep_seconds, pass_vars, store_vars >>]_vars
  /\ [][\A c \in Callers :
          (caller[c].pc = "idle" /\ caller'[c].pc # "idle") =>
            ~get_monitoring_status'.is_running]_vars
  /\ [][(~get_monitoring_status.is_running /\ get_monitoring_status'.is_running) =>
          monitor_task' # monitor_task]_vars
\* A stop_monitoring call on a monitor that was stopped before has returned.
C15_Witness ==
  \E c, d \in Callers :
    /\ c # d
    /\ caller[c].pc = "returned"
    /\ caller[d].pc = "returned"
    /\ ~is_running
    /\ monitor_task # 0
    /\ Finished(monitor_task)

\* C27: in every state is_running is true if and only if a loop task exists
\* that has neither ended nor been cancelled, and get_monitoring_status
\* reports just that.
C27_RunningIffLiveLoop ==
  /\ is_running <=> \E t \in Tasks : Active(t)
  /\ get_monitoring_status.is_running <=> \E t \in Tasks : Active(t)
  /\ is_running => (monitor_task # 0 /\ Active(monitor_task))
\* The monitor was stopped and started again: the cancelled task has not yet
\* ended, the new one is live, and an immediate check is in flight.
C27_Witness ==
  /\ is_running
  /\ \E t \in Tasks : ~Finished(t) /\ cancel_requested[t]
  /\ \E t \in Tasks : Active(t) /\ outcome[t] = "raised"
  /\ pc[Imm] # "idle"

\* ------------------------------------------------ claims on the dashboard
\* C21: _get_status_from_score puts every score of [0, 100] into exactly one
\* band: excellent from 95, good from 85 to below 95, warning from 70 to
\* below 85, poor below 70 (95.0 excellent, 94.9 good, 85.0 good, 70.0
\* warning, 69.9 poor), and every entry of the dashboard carries the band of
\* its score.
C21_StatusBands ==
  /\ \A e \in quality_scores :
       /\ e.status \in {"excellent", "good", "warning", "poor"}
       /\ e.status = "excellent" <=> e.score >= 9500
       /\ e.status = "good" <=> (e.score >= 8500 /\ e.score < 9500)
       /\ e.status = "warning" <=> (e.score >= 7000 /\ e.score < 8500)
       /\ e.status = "poor" <=> e.score < 7000
       /\ e.score = 9500 => e.status = "excellent"
       /\ e.score = 9490 => e.status = "good"
       /\ e.score = 8500 => e.status = "good"
       /\ e.score = 7000 => e.status = "warning"
       /\ e.score = 6990 => e.status = "poor"
  /\ \A r \in data_quality_metrics :
       (r.metric_value >= 0 /\ r.metric_value <= 10000) =>
         _get_status_from_score(r.metric_value) \in {"excellent", "good", "warning", "poor"}
\* A view holds an entry scored exactly 95.0 beside a pass's entries.
C21_Witness ==
  /\ \E e \in quality_scores : e.score = 9500 /\ e.status = "excellent"
  /\ \E e \in quality_scores : e.table_name = "energy_consumption"

\* C24: the latest-metric projection of the dashboard and that of the
\* metrics query hold, for every (table_name, metric_name) with a metric row,
\* exactly one row, and it has the greatest calculated_at of the pair's rows.
C24_LatestOnePerPair ==
  \A latest \in {_get_latest_quality_metrics(data_quality_metrics),
                  get_latest_quality_metrics(data_quality_metrics, NULL, METRICS_LIMIT)} :
    \A r \in data_quality_metrics :
      LET ofPair == {x \in latest : x.table_name = r.table_name
                                    /\ x.metric_name = r.metric_name}
      IN  /\ Cardinality(ofPair) = 1
          /\ \A x \in ofPair : x.calculated_at >= r.calculated_at

\* C26: every metric row in the store, the per-table rows of the service and
\* the overall_quality_score row of the monitor alike, has
\* valid_records + invalid_records = total_records.
C26_ValidPlusInvalidIsTotal ==
  \A r \in data_quality_metrics :
    r.valid_records + r.invalid_records = r.total_records
\* The store holds an overall row of the monitor and a per-table row with
\* invalid records.
C26_Witness ==
  /\ \E r \in data_quality_metrics : r.table_name = "system_overall"
  /\ \E r \in data_quality_metrics :
       r.table_name = "energy_consumption" /\ r.invalid_records > 0

\* ------------------------------------------- claims on the issue lifecycle
\* C25: once a pass has stored its metrics and its alert evaluation is over,
\* every record-level issue its Issue Detector yielded is an OPEN row of
\* data_quality_issues.
C25_DetectorIssuesPersisted ==
  \A p \in Procs :
    LET found == results[p].energy_data.issues \o results[p].weather_data.issues
    IN  (outcome[p] = "returned" /\ pass_no[p] \in stored_log
           /\ pc[p] \notin {"store", "alerts"}) =>
          \A i \in DOMAIN found :
            \E r \in data_quality_issues :
              r.pass = pass_no[p] /\ r.issue_type = found[i] /\ r.status = "OPEN"

\* C22: a resolve request for an issue id that no row has fails with the
\* not-found error (none of its statements raising otherwise) and writes
\* nothing: every issue row is as before.
C22_ResolveMissingWritesNothing ==
  [][(resolve_return' # resolve_return
        /\ \A r \in data_quality_issues : r.id # resolve_return'.issue_id) =>
       /\ data_quality_issues' = data_quality_issues
       /\ resolve_return'.issue = {}
       /\ faults' = faults => resolve_return'.status = "not_found"]_vars
\* A request for the one id beyond those of the stored rows was answered
\* not-found, beside an issue resolved earlier.
C22_Witness ==
  /\ resolve_return.status = "not_found"
  /\ resolve_return.issue_id = Cardinality(data_quality_issues) + 1
  /\ \E r \in data_quality_issues : r.status = "RESOLVED"

\* C23: a successful resolve request leaves its issue RESOLVED with
\* resolved_at and resolution_notes stamped and the other rows as they were,
\* and no step (a second resolve, a further pass, an alert) returns a
\* RESOLVED issue to OPEN or removes it.
C23_ResolveIsIrreversible ==
  /\ [][(resolve_return' # resolve_return /\ resolve_return'.status = "success") =>
          /\ \E r \in data_quality_issues' :
               /\ r.id = resolve_return'.issue_id
               /\ r.status = "RESOLVED"
               /\ r.resolved_at # NULL
               /\ r.resolution_notes # NULL
               /\ resolve_return'.issue = {r}
          /\ \A r \in data_quality_issues :
               r.id # resolve_return'.issue_id => r \in data_quality_issues']_vars
  /\ [][\A r \in data_quality_issues :
          r.status = "RESOLVED" =>
            \E q \in data_quality_issues' : q.id = r.id /\ q.status = "RESOLVED"]_vars
  /\ [](\A r, q \in data_quality_issues : r.id = q.id => r = q)
\* An issue was resolved, resolved again with other notes, and a later pass
\* has raised an alert that is OPEN.
C23_Witness ==
  /\ resolve_return.status = "success"
  /\ \E r, q \in data_quality_issues :
       /\ r.status = "RESOLVED"
       /\ r.resolution_notes = <<"false alarm">>
       /\ q.status = "OPEN"
       /\ q.pass > r.pass

\* C28: every issue row is created OPEN with no resolved_at, and in every
\* state a row has a resolved_at if and only if its status is RESOLVED.
C28_ResolvedIffStamped ==
  /\ [](\A r \in data_quality_issues : r.resolved_at # NULL <=> r.status = "RESOLVED")
  /\ [][\A r \in data_quality_issues' :
          (\A q \in data_quality_issues : q.id # r.id) =>
            r.status = "OPEN" /\ r.resolved_at = NULL]_vars
\* One issue is RESOLVED and stamped, another OPEN and not.
C28_Witness ==
  \E r, q \in data_quality_issues :
    /\ r.status = "RESOLVED" /\ r.resolved_at = <<clock>>
    /\ q.status = "OPEN" /\ q.resolved_at = NULL

\* ---------------------------------------------------- claims on ingestion
\* C29: the counts an energy check reads by its separate queries satisfy
\* complete_records <= total_records, accurate_records <= total_records and
\* duplicate_count <= total_records, and its scores lie in [0, 100], also
\* when batches are committed between the queries.
C29_CountsWithinTotal ==
  (energy_check.pc = "done" /\ energy_check.total_records > 0) =>
    LET e == energy_check.result
    IN  /\ e.complete_records <= e.total_records
        /\ e.accurate_records <= e.total_records
        /\ e.duplicate_count <= e.total_records
        /\ e.completeness_score \in 0..10000
        /\ e.accuracy_score \in 0..10000
        /\ e.consistency_score \in 0..10000

\* C30: the 'created' count create_energy_records returns is the number of
\* records of the batch its call has committed to energy_consumption, on the
\* bulk path and on the record-by-record path after a duplicate (no commit
\* failing for another reason).
C30_CreatedIsCommitted ==
  [][(ingest_return' # ingest_return /\ ingest_return'.status = "returned"
        /\ faults' = faults) =>
       ingest_return'.created = Len(energy_consumption') - Len(energy_consumption)]_vars

====
